---- MODULE Spec2Model ----
(***************************************************************************)
(* Verification model of the DMG machine fabric: the machine bus, its     *)
(* address map and the cartridge loader (src/src/model/dmg/mod.rs), the    *)
(* ReadOnly device wrapper (src/core/src/dev/readonly.rs), the SM83        *)
(* execution state machine, stack and registers                            *)
(* (src/core/src/hw/cpu/sm83/mod.rs) and the pixel fetcher                 *)
(* (src/src/model/dmg/ppu/pixel.rs).                                       *)
(*                                                                         *)
(* The `remus` bus, the PIC and the instruction table are not part of the  *)
(* sources at hand; they are modelled from the specification text and are  *)
(* marked as such where they are defined.                                  *)
(***************************************************************************)
EXTENDS Integers, Sequences, FiniteSets, TLC

VARIABLES
    \* ---- machine bus (GameBoy) ----
    mem,        \* device name -> (local index -> byte), written cells only
    last,       \* the last machine operation: [op, addr, val]
    nops,       \* number of bus writes issued so far
    bootOff     \* history: 1 was written to 0xFF50 since the last reset

VARIABLES
    \* ---- ReadOnly wrapper around a shared device ----
    roInner,    \* bytes of the wrapped device (1-based; index i is cell i + 1)
    roSnap,     \* history: the wrapped device's bytes before the wrapper's writes
    roLast,     \* the last operation on the wrapper or the device: [op, idx, val]
    roN         \* number of ReadOnly::write calls since roSnap was taken

VARIABLES
    \* ---- SM83 CPU ----
    cpu,        \* the Cpu: registers, status, state, ime, halt_bug
    pic,        \* the interrupt controller: [enable, flag] (IE, IF)
    run,        \* GameBoy::start: "idle", "running" or "returned"
    cyc,        \* history: what the last cycle() did
    reqAt,      \* history: the FSM state in which the last request was raised
    ncycles,    \* number of cycle() calls so far
    fetches,    \* history: the two most recent opcode fetches since a reset
    stk,        \* history: the last stack or register-pair operation
    ld,         \* history: the last GameBoy::load
    ppu,        \* the pixel fetcher, its FIFO, the PPU registers and VRAM
    fstep       \* history: what the last fetcher step did

busVars == <<mem, last, nops, bootOff>>

roVars == <<roInner, roSnap, roLast, roN>>

cpuVars == <<cpu, pic, run, cyc, reqAt, ncycles, fetches>>

regVars == <<stk>>

loadVars == <<ld>>

ppuVars == <<ppu, fstep>>

extVars == <<regVars, loadVars, ppuVars>>

vars == <<mem, last, nops, bootOff, roInner, roSnap, roLast, roN,
          cpu, pic, run, cyc, reqAt, ncycles, fetches, stk, ld, ppu, fstep>>

(***************************************************************************)
(* Bounds of the model.                                                    *)
(***************************************************************************)
\* Number of bus writes explored after construction.
MaxOps == 2

\* Length of the device wrapped by ReadOnly.
RoLen == 3

\* Number of consecutive ReadOnly::write calls explored.
MaxRoWrites == 2

\* Number of cycle() calls explored.
MaxCycles == 8

\* Number of Cpu::reset calls explored.
MaxResets == 1

\* Number of GameBoy::load calls explored, and the length of the short images.
MaxLoads == 2

MaxImage == 3

\* Number of fetcher steps explored.
MaxFetch == 12

\* Number of stack and register-pair operations explored.
MaxStackOps == 2

(***************************************************************************)
(* Devices                                                                  *)
(***************************************************************************)
\* const BOOTROM: [u8; 0x100]; the tuple is 1-based, BOOTROM[i + 1] is byte i.
BOOTROM ==
  <<
    \h31, \hfe, \hff, \haf, \h21, \hff, \h9f, \h32, \hcb, \h7c, \h20, \hfb, \h21, \h26, \hff, \h0e,
    \h11, \h3e, \h80, \h32, \he2, \h0c, \h3e, \hf3, \he2, \h32, \h3e, \h77, \h77, \h3e, \hfc, \he0,
    \h47, \h11, \h04, \h01, \h21, \h10, \h80, \h1a, \hcd, \h95, \h00, \hcd, \h96, \h00, \h13, \h7b,
    \hfe, \h34, \h20, \hf3, \h11, \hd8, \h00, \h06, \h08, \h1a, \h13, \h22, \h23, \h05, \h20, \hf9,
    \h3e, \h19, \hea, \h10, \h99, \h21, \h2f, \h99, \h0e, \h0c, \h3d, \h28, \h08, \h32, \h0d, \h20,
    \hf9, \h2e, \h0f, \h18, \hf3, \h67, \h3e, \h64, \h57, \he0, \h42, \h3e, \h91, \he0, \h40, \h04,
    \h1e, \h02, \h0e, \h0c, \hf0, \h44, \hfe, \h90, \h20, \hfa, \h0d, \h20, \hf7, \h1d, \h20, \hf2,
    \h0e, \h13, \h24, \h7c, \h1e, \h83, \hfe, \h62, \h28, \h06, \h1e, \hc1, \hfe, \h64, \h20, \h06,
    \h7b, \he2, \h0c, \h3e, \h87, \he2, \hf0, \h42, \h90, \he0, \h42, \h15, \h20, \hd2, \h05, \h20,
    \h4f, \h16, \h20, \h18, \hcb, \h4f, \h06, \h04, \hc5, \hcb, \h11, \h17, \hc1, \hcb, \h11, \h17,
    \h05, \h20, \hf5, \h22, \h23, \h22, \h23, \hc9, \hce, \hed, \h66, \h66, \hcc, \h0d, \h00, \h0b,
    \h03, \h73, \h00, \h83, \h00, \h0c, \h00, \h0d, \h00, \h08, \h11, \h1f, \h88, \h89, \h00, \h0e,
    \hdc, \hcc, \h6e, \he6, \hdd, \hdd, \hd9, \h99, \hbb, \hbb, \h67, \h63, \h6e, \h0e, \hec, \hcc,
    \hdd, \hdc, \h99, \h9f, \hbb, \hb9, \h33, \h3e, \h3c, \h42, \hb9, \ha5, \hb9, \ha5, \h42, \h3c,
    \h21, \h04, \h01, \h11, \ha8, \h00, \h1a, \h13, \hbe, \h20, \hfe, \h23, \h7d, \hfe, \h34, \h20,
    \hf5, \h06, \h19, \h78, \h86, \h23, \h05, \h20, \hfb, \h86, \h20, \hfe, \h3e, \h01, \he0, \h50
  >>

\* The shared devices of Devices, IoDevices and Cartridge.
Devs ==
    { "boot", "rom", "vram", "eram", "wram", "oam", "hram", "ie",
      "con", "com", "timer", "iflag", "sound", "io_wram", "lcd", "bank" }

\* The const generic length of each Memory<N> / Register<N>.
DevLen(d) ==
    CASE d = "boot"    -> \h0100
      [] d = "rom"     -> \h8000
      [] d = "vram"    -> \h2000
      [] d = "eram"    -> \h2000
      [] d = "wram"    -> \h2000
      [] d = "oam"     -> \h00a0
      [] d = "hram"    -> \h007f
      [] d = "ie"      -> 1
      [] d = "con"     -> 1
      [] d = "com"     -> 2
      [] d = "timer"   -> 4
      [] d = "iflag"   -> 1
      [] d = "sound"   -> \h17
      [] d = "io_wram" -> \h10
      [] d = "lcd"     -> \h0c
      [] d = "bank"    -> 1

\* Contents of a device that was never written: Devices::reset replaces the
\* boot memory by Memory::from(&BOOTROM); every other device is Default (zero).
DevInit(d, i) == IF d = "boot" THEN BOOTROM[i + 1] ELSE 0

\* Device::contains of a Memory / Register.
DevContains(d, i) == i >= 0 /\ i < DevLen(d)

\* Device::read of a Memory / Register in store m.
DevRead(m, d, i) == IF i \in DOMAIN m[d] THEN m[d][i] ELSE DevInit(d, i)

\* Device::write of a Memory / Register: every device of the machine,
\* the boot memory included, is a plain Memory or Register and stores the byte.
DevWrite(m, d, i, v) == [m EXCEPT ![d] = (i :> v) @@ @]

(***************************************************************************)
(* Bus (remus::bus::Bus), from the specification: an ordered list of       *)
(* (base, device) entries; an entry matches address a when base <= a and   *)
(* the device contains a - base; a read is served by the last-mapped       *)
(* matching entry, a write fans out to every matching entry, and an        *)
(* address no entry matches reads 0xFF and drops the write.                *)
(***************************************************************************)
Entry(b, d) == [base |-> b, dev |-> d]

\* The I/O sub-bus, in the order IoDevices::reset maps it.
IoMap ==
    << Entry(\h00, "con"),
       Entry(\h01, "com"),
       Entry(\h04, "timer"),
       Entry(\h0f, "iflag"),
       Entry(\h10, "sound"),
       Entry(\h30, "io_wram"),
       Entry(\h40, "lcd"),
       Entry(\h50, "bank") >>

\* Indices of the entries of the I/O bus that match local address a.
IoMatching(a) ==
    { k \in 1..Len(IoMap) :
        IoMap[k].base <= a /\ DevContains(IoMap[k].dev, a - IoMap[k].base) }

\* Maximum of a non-empty set of naturals.
Max(S) == CHOOSE x \in S : \A y \in S : y <= x

IoContains(a) == IoMatching(a) # {}

IoRead(m, a) ==
    IF IoMatching(a) = {} THEN \hff
    ELSE LET e == IoMap[Max(IoMatching(a))] IN DevRead(m, e.dev, a - e.base)

RECURSIVE IoWriteFrom(_, _, _, _)
IoWriteFrom(m, k, a, v) ==
    IF k > Len(IoMap) THEN m
    ELSE IoWriteFrom(
             IF k \in IoMatching(a)
             THEN DevWrite(m, IoMap[k].dev, a - IoMap[k].base, v)
             ELSE m,
             k + 1, a, v)

IoWrite(m, a, v) == IoWriteFrom(m, 1, a, v)

\* Variant of the map with the VRAM and external RAM bases exchanged.
BusMapSwapped ==
    << Entry(\h0000, "boot"),
       Entry(\h0000, "rom"),
       Entry(\ha000, "vram"),
       Entry(\h8000, "eram"),
       Entry(\hc000, "wram"),
       Entry(\he000, "wram"),
       Entry(\hfe00, "oam"),
       Entry(\hff00, "io"),
       Entry(\hff80, "hram"),
       Entry(\hffff, "ie") >>

\* Variant of the map without the echo entry at 0xE000.
BusMapNoEcho ==
    << Entry(\h0000, "boot"),
       Entry(\h0000, "rom"),
       Entry(\h8000, "vram"),
       Entry(\ha000, "eram"),
       Entry(\hc000, "wram"),
       Entry(\hfe00, "oam"),
       Entry(\hff00, "io"),
       Entry(\hff80, "hram"),
       Entry(\hffff, "ie") >>

\* Variant of the map with the boot memory mapped after the cartridge ROM.
BusMapBootLast ==
    << Entry(\h0000, "rom"),
       Entry(\h0000, "boot"),
       Entry(\h8000, "vram"),
       Entry(\ha000, "eram"),
       Entry(\hc000, "wram"),
       Entry(\he000, "wram"),
       Entry(\hfe00, "oam"),
       Entry(\hff00, "io"),
       Entry(\hff80, "hram"),
       Entry(\hffff, "ie") >>

\* The machine bus, in the order GameBoy::reset maps it.  "io" is the I/O
\* sub-bus (devs.io.bus), itself a device of the machine bus.
BusMap ==
    << Entry(\h0000, "boot"),
       Entry(\h0000, "rom"),
       Entry(\h8000, "vram"),
       Entry(\ha000, "eram"),
       Entry(\hc000, "wram"),
       Entry(\he000, "wram"),
       Entry(\hfe00, "oam"),
       Entry(\hff00, "io"),
       Entry(\hff80, "hram"),
       Entry(\hffff, "ie") >>

\* Device::contains / read / write of an entry of the machine bus.
EntContains(d, i) == IF d = "io" THEN IoContains(i) ELSE DevContains(d, i)

EntRead(m, d, i) == IF d = "io" THEN IoRead(m, i) ELSE DevRead(m, d, i)

EntWrite(m, d, i, v) == IF d = "io" THEN IoWrite(m, i, v) ELSE DevWrite(m, d, i, v)

BusMatching(a) ==
    { k \in 1..Len(BusMap) :
        BusMap[k].base <= a /\ EntContains(BusMap[k].dev, a - BusMap[k].base) }

\* Bus::read: the last-mapped matching entry serves the read.
BusRead(m, a) ==
    IF BusMatching(a) = {} THEN \hff
    ELSE LET e == BusMap[Max(BusMatching(a))] IN EntRead(m, e.dev, a - e.base)

RECURSIVE BusWriteFrom(_, _, _, _)
BusWriteFrom(m, k, a, v) ==
    IF k > Len(BusMap) THEN m
    ELSE BusWriteFrom(
             IF k \in BusMatching(a)
             THEN EntWrite(m, BusMap[k].dev, a - BusMap[k].base, v)
             ELSE m,
             k + 1, a, v)

\* Bus::write: the write fans out to every matching entry.
BusWrite(m, a, v) == BusWriteFrom(m, 1, a, v)

(***************************************************************************)
(* Inputs explored: the first and last address of every region and gap of  *)
(* the address map, and the addresses the scenarios name.                  *)
(***************************************************************************)
Addrs ==
    { \h0000, \h0040, \h00ff, \h0100, \h7fff, \h8000, \h9fff, \ha000, \hbfff,
      \hc000, \hddff, \hdea0, \hdfff, \he000, \hfdff, \hfe00, \hfe9f, \hfea0,
      \hfeff, \hff00, \hff01, \hff02, \hff03, \hff04, \hff07, \hff0f, \hff10,
      \hff26, \hff30, \hff3f, \hff40, \hff4b, \hff50, \hff7f, \hff80, \hfffe,
      \hffff }

Bytes == { \h01, \haa }

(***************************************************************************)
(* Machine operations                                                      *)
(***************************************************************************)
\* GameBoy::new(): Self::default().reset().  Every device is zeroed by
\* Default, the maps are installed and the boot memory holds BOOTROM.
BusInit ==
    /\ mem = [d \in Devs |-> <<>>]
    /\ last = [op |-> "new", addr |-> 0, val |-> 0]
    /\ nops = 0
    /\ bootOff = FALSE

\* cpu.bus.write(a, v)
Write(a, v) ==
    /\ nops < MaxOps
    /\ mem' = BusWrite(mem, a, v)
    /\ last' = [op |-> "write", addr |-> a, val |-> v]
    /\ nops' = nops + 1
    /\ bootOff' = (bootOff \/ (a = \hff50 /\ v = 1))
    /\ UNCHANGED <<roVars, cpuVars, extVars>>

\* GameBoy::reset(): the maps are rebuilt over the same shared devices and
\* Devices::reset replaces the boot memory by the image; nothing else is
\* cleared (Cartridge::reset returns self).
Reset ==
    /\ mem' = [mem EXCEPT !["boot"] = <<>>]
    /\ last' = [op |-> "reset", addr |-> 0, val |-> 0]
    /\ bootOff' = FALSE
    /\ UNCHANGED <<nops, roVars, cpuVars, extVars>>

BusNext ==
    \/ \E a \in Addrs, v \in Bytes : Write(a, v)
    \/ Reset

(***************************************************************************)
(* Properties of the machine bus                                           *)
(***************************************************************************)
\* The mapped regions as the address-map table lists them: first and last
\* address, the device expected there, and the base its index is taken from.
Region(l, h, d, b) == [lo |-> l, hi |-> h, dev |-> d, base |-> b]

MappedRegions ==
    { Region(\h0000, \h00ff, "boot",    \h0000),
      Region(\h0100, \h7fff, "rom",     \h0000),
      Region(\h8000, \h9fff, "vram",    \h8000),
      Region(\ha000, \hbfff, "eram",    \ha000),
      Region(\hfe00, \hfe9f, "oam",     \hfe00),
      Region(\hff00, \hff00, "con",     \hff00),
      Region(\hff01, \hff02, "com",     \hff01),
      Region(\hff04, \hff07, "timer",   \hff04),
      Region(\hff0f, \hff0f, "iflag",   \hff0f),
      Region(\hff10, \hff26, "sound",   \hff10),
      Region(\hff30, \hff3f, "io_wram", \hff30),
      Region(\hff40, \hff4b, "lcd",     \hff40),
      Region(\hff50, \hff50, "bank",    \hff50),
      Region(\hff80, \hfffe, "hram",    \hff80),
      Region(\hffff, \hffff, "ie",      \hffff) }

IsIoAddr(a) == a >= \hff00 /\ a <= \hff7f

\* C1: after bus.write(a, v) with a in a mapped region, the device of that
\* region holds v at local index a - base; for an I/O address the I/O sub-bus
\* reads v at offset a - 0xFF00 as well.
C1_WriteReachesDevice ==
    last.op = "write" =>
        \A r \in MappedRegions :
            (last.addr >= r.lo /\ last.addr <= r.hi) =>
                /\ DevRead(mem, r.dev, last.addr - r.base) = last.val
                /\ IsIoAddr(last.addr) => IoRead(mem, last.addr - \hff00) = last.val

\* A first write on a fresh machine landed in an I/O register (IF, 0xFF0F).
C1_Witness ==
    /\ nops = 1
    /\ last = [op |-> "write", addr |-> \hff0f, val |-> \haa]
    /\ DevRead(mem, "iflag", 0) = \haa
    /\ IoRead(mem, \h0f) = \haa

\* C2: a byte written at 0xC000+k is read back at 0xE000+k and a byte written
\* at 0xE000+k is read back at 0xC000+k, for k in 0..0x1DFF, after any
\* sequence of bus operations.
C2_EchoSharesStore ==
    last.op = "write" =>
        /\ (last.addr >= \hc000 /\ last.addr <= \hddff) =>
               BusRead(mem, last.addr + \h2000) = last.val
        /\ (last.addr >= \he000 /\ last.addr <= \hfdff) =>
               BusRead(mem, last.addr - \h2000) = last.val

\* After an earlier operation, a write to 0xFDFF is read back at 0xDDFF.
C2_Witness ==
    /\ nops = 2
    /\ last.op = "write" /\ last.addr = \hfdff
    /\ BusRead(mem, \hddff) = last.val

\* C3: right after new() or reset(), a bus read of any address in
\* 0x0000..=0x00FF returns the byte of the embedded boot image.
C3_BootImageReadAtReset ==
    last.op \in {"new", "reset"} =>
        \A a \in 0..\hff : BusRead(mem, a) = BOOTROM[a + 1]

\* C4: the boot device keeps the embedded image whatever is written on the
\* bus in 0x0000..=0x00FF.
C4_BootWritesAbsorbed ==
    \A a \in 0..\hff : DevRead(mem, "boot", a) = BOOTROM[a + 1]

\* C5: once 1 was written to 0xFF50 (and until the next reset), a bus read of
\* any address in 0x0000..=0x00FF returns the cartridge ROM byte there.
C5_CartVisibleAfterBootOff ==
    bootOff => \A a \in 0..\hff : BusRead(mem, a) = DevRead(mem, "rom", a)

\* 0xAA was written to 0x0040, then 1 to 0xFF50, and 0x0040 reads 0xAA.
C5_Witness ==
    /\ bootOff
    /\ last = [op |-> "write", addr |-> \hff50, val |-> 1]
    /\ DevRead(mem, "rom", \h40) = \haa
    /\ BusRead(mem, \h40) = \haa

\* C6: a bus read of any address in the gap 0xFEA0..=0xFEFF returns 0xFF in
\* every reachable state.
C6_GapReadsFF ==
    \A a \in \hfea0..\hfeff : BusRead(mem, a) = \hff

\* Work RAM reads the same at every address of 0xC000..=0xDFFF in the stores
\* m1 and m2: a byte neither store holds reads as the default in both.
WramSame(m1, m2) ==
    \A k \in (DOMAIN m1["wram"]) \cup (DOMAIN m2["wram"]) :
        BusRead(m1, \hc000 + k) = BusRead(m2, \hc000 + k)

\* C24: a bus.write(a, v) with a in 0xFE00..=0xFFFF leaves every work RAM
\* byte read at 0xC000..=0xDFFF as it was before the write.
C24_HighWriteKeepsWram ==
    [][ ( /\ nops' # nops
          /\ last'.op = "write"
          /\ last'.addr >= \hfe00 /\ last'.addr <= \hffff ) =>
            WramSame(mem, mem') ]_vars

(***************************************************************************)
(* ReadOnly (core/src/dev/readonly.rs) over a shared device.  The wrapped  *)
(* device is a byte store of RoLen cells, as the Device capability         *)
(* describes it: an index outside the device reads 0xFF and drops writes.  *)
(***************************************************************************)
RoBytes == { \h00, \h55, \haa }

\* Device::len / contains / read / write / reset of the wrapped device.
InnerLen(dev) == Len(dev)

InnerContains(dev, i) == i >= 0 /\ i < Len(dev)

InnerRead(dev, i) == IF InnerContains(dev, i) THEN dev[i + 1] ELSE \hff

InnerWrite(dev, i, v) == IF InnerContains(dev, i) THEN [dev EXCEPT ![i + 1] = v] ELSE dev

InnerReset(dev) == [k \in 1..Len(dev) |-> 0]

\* ReadOnly::contains, len and read forward to the wrapped device.
RoContains(dev, i) == InnerContains(dev, i)

RoLenOf(dev) == InnerLen(dev)

RoRead(dev, i) == InnerRead(dev, i)

\* What a forwarding write would leave in the wrapped device.
RoWriteForwarded(dev, i, v) == InnerWrite(dev, i, v)

\* ReadOnly::write: the call is logged and the wrapped device is not touched.
RoWriteEffect(dev, i, v) == dev

\* ReadOnly::from(dev) over a device holding any bytes.
RoInit ==
    /\ roInner \in [1..RoLen -> RoBytes]
    /\ roSnap = roInner
    /\ roLast = [op |-> "from", idx |-> 0, val |-> 0]
    /\ roN = 0

\* ReadOnly::write(index, value); index RoLen is outside the device.
RoWrite(i, v) ==
    /\ roN < MaxRoWrites
    /\ roInner' = RoWriteEffect(roInner, i, v)
    /\ roLast' = [op |-> "ro_write", idx |-> i, val |-> v]
    /\ roN' = roN + 1
    /\ UNCHANGED <<roSnap, busVars, cpuVars, extVars>>

\* Another holder of the shared device writes it directly.
SharedWrite(i, v) ==
    /\ roInner' = InnerWrite(roInner, i, v)
    /\ roSnap' = roInner'
    /\ roLast' = [op |-> "shared_write", idx |-> i, val |-> v]
    /\ roN' = 0
    /\ UNCHANGED <<busVars, cpuVars, extVars>>

\* ReadOnly::reset: resets the wrapped device.
RoReset ==
    /\ roInner' = InnerReset(roInner)
    /\ roSnap' = roInner'
    /\ roLast' = [op |-> "reset", idx |-> 0, val |-> 0]
    /\ roN' = 0
    /\ UNCHANGED <<busVars, cpuVars, extVars>>

RoNext ==
    \/ \E i \in 0..RoLen, v \in RoBytes : RoWrite(i, v)
    \/ \E i \in 0..RoLen, v \in RoBytes : SharedWrite(i, v)
    \/ RoReset

\* The wrapper is not in use.
RoIdle ==
    /\ roInner = <<>>
    /\ roSnap = <<>>
    /\ roLast = [op |-> "none", idx |-> 0, val |-> 0]
    /\ roN = 0

\* C7: after any sequence of ReadOnly::write calls, every read through the
\* wrapper returns the byte the wrapped device held before those writes, and
\* len() and contains() answer as before.
C7_ReadOnlyWriteIgnored ==
    /\ RoLenOf(roInner) = InnerLen(roSnap)
    /\ \A i \in 0..RoLen :
           /\ RoRead(roInner, i) = InnerRead(roSnap, i)
           /\ RoContains(roInner, i) <=> InnerContains(roSnap, i)

\* Two writes of 0xAA were made through the wrapper to a cell holding 0x55,
\* which still reads 0x55.
C7_Witness ==
    /\ roN = 2
    /\ roLast = [op |-> "ro_write", idx |-> 0, val |-> \haa]
    /\ RoRead(roInner, 0) = \h55

(***************************************************************************)
(* Bytes and words                                                         *)
(***************************************************************************)
\* Bit k of n.
Bit(n, k) == (n \div (2 ^ k)) % 2

\* Bitwise and of two naturals.
RECURSIVE BitAnd(_, _)
BitAnd(x, y) ==
    IF x = 0 \/ y = 0 THEN 0
    ELSE (x % 2) * (y % 2) + 2 * BitAnd(x \div 2, y \div 2)

\* u16::wrapping_add / wrapping_sub.
WrapAdd16(x, n) == (x + n) % 65536

WrapSub16(x, n) == (x + 65536 - n) % 65536

\* Minimum of a non-empty set of naturals.
Min(S) == CHOOSE x \in S : \A y \in S : x <= y

(***************************************************************************)
(* PIC (crate::hw::pic::Pic), from the specification: IE and IF, five      *)
(* sources with bit 0 the highest priority.  An Option<source> is the      *)
(* empty set (None) or a singleton (Some).                                 *)
(***************************************************************************)
Sources == 0..4

\* Pic::int: the lowest set bit of IE & IF.
PicInt(p) ==
    LET pending == { k \in Sources : Bit(BitAnd(p.enable, p.flag), k) = 1 }
    IN  IF pending = {} THEN {} ELSE { Min(pending) }

\* Pic::ack: clears the source's IF bit.
PicAck(p, k) == IF Bit(p.flag, k) = 1 THEN [p EXCEPT !.flag = @ - 2 ^ k] ELSE p

\* Pic::request: sets the source's IF bit.
PicRequest(p, k) == IF Bit(p.flag, k) = 0 THEN [p EXCEPT !.flag = @ + 2 ^ k] ELSE p

(***************************************************************************)
(* Instructions (sm83::inst::Instruction), from the specification: each    *)
(* opcode is a sequence of micro-ops, one per M-cycle, the first of which  *)
(* runs in the cycle of the fetch.  Modelled rows of the decode table:     *)
(* NOP, LD BC,d16, INC A, HALT, DI, EI, PUSH BC and the interrupt service. *)
(***************************************************************************)
OpNop == \h00

OpLdBc == \h01

OpIncA == \h3c

OpHalt == \h76

OpPushBc == \hc5

OpDi == \hf3

OpEi == \hfb

Opcodes == { OpNop, OpLdBc, OpIncA, OpHalt, OpPushBc, OpDi, OpEi }

Inst(o, n, k) == [op |-> o, step |-> n, src |-> k]

NoInst == Inst("-", 0, 0)

\* Instruction::new(opcode)
InstNew(opcode) ==
    CASE opcode = OpLdBc   -> Inst("LD_BC", 0, 0)
      [] opcode = OpIncA   -> Inst("INC_A", 0, 0)
      [] opcode = OpHalt   -> Inst("HALT", 0, 0)
      [] opcode = OpPushBc -> Inst("PUSH_BC", 0, 0)
      [] opcode = OpDi     -> Inst("DI", 0, 0)
      [] opcode = OpEi     -> Inst("EI", 0, 0)
      [] OTHER             -> Inst("NOP", 0, 0)

\* Instruction::int(src)
InstInt(k) == Inst("INT", 0, k)

\* Number of micro-ops (M-cycles) of an instruction.
InstLen(op) ==
    CASE op = "LD_BC"   -> 3
      [] op = "PUSH_BC" -> 4
      [] op = "INT"     -> 5
      [] OTHER          -> 1

\* Interrupt vector of a source: 0x40, 0x48, 0x50, 0x58, 0x60.
Vector(k) == \h40 + 8 * k

\* Flag::Z, Flag::N, Flag::H, Flag::C
FlagZ == \h80

FlagN == \h40

FlagH == \h20

FlagC == \h10

\* Cpu::fetchbyte: reads the byte at PC and advances PC.
FetchByte(w) ==
    [ w    |-> [w EXCEPT !.cpu.pc = WrapAdd16(@, 1)],
      byte |-> BusRead(w.mem, w.cpu.pc) ]

\* The operand byte fb, fetched by a micro-op, is loaded into register r.
LoadOperand(fb, r) ==
    [fb.w EXCEPT !.cpu[r] = fb.byte, !.ev.operands = @ + 1]

\* One half of Cpu::pushword: SP is decremented, then the byte is written.
PushByte(w, byte) ==
    LET sp == WrapSub16(w.cpu.sp, 1)
    IN  [w EXCEPT !.cpu.sp = sp, !.mem = BusWrite(w.mem, sp, byte)]

\* HALT: with IME enabled, or with no interrupt pending, the CPU halts; with
\* IME not enabled and an interrupt pending it keeps running with halt_bug set.
ExecHalt(w) ==
    IF w.cpu.ime = "Enabled" \/ BitAnd(w.pic.enable, w.pic.flag) = 0
    THEN [w EXCEPT !.cpu.status = "Halted"]
    ELSE [w EXCEPT !.cpu.halt_bug = TRUE]

\* INC A: Z from the result, N cleared, H from the carry out of bit 3, C kept.
ExecIncA(w) ==
    LET r == (w.cpu.a + 1) % 256
        z == IF r = 0 THEN FlagZ ELSE 0
        h == IF w.cpu.a % 16 = 15 THEN FlagH ELSE 0
        c == FlagC * Bit(w.cpu.f, 4)
    IN  [w EXCEPT !.cpu.a = r, !.cpu.f = z + h + c]

\* The micro-op of inst at its current step.
MicroOp(w, inst) ==
    CASE inst.op = "INC_A" -> ExecIncA(w)
      [] inst.op = "HALT"  -> ExecHalt(w)
      [] inst.op = "DI"    -> [w EXCEPT !.cpu.ime = "Disabled"]
      [] inst.op = "EI"    -> [w EXCEPT !.cpu.ime = "WillEnable"]
      [] inst.op = "LD_BC" /\ inst.step = 1 -> LoadOperand(FetchByte(w), "c")
      [] inst.op = "LD_BC" /\ inst.step = 2 -> LoadOperand(FetchByte(w), "b")
      [] inst.op = "PUSH_BC" /\ inst.step = 2 -> PushByte(w, w.cpu.b)
      [] inst.op = "PUSH_BC" /\ inst.step = 3 -> PushByte(w, w.cpu.c)
      [] inst.op = "INT" /\ inst.step = 2 -> PushByte(w, w.cpu.pc \div 256)
      [] inst.op = "INT" /\ inst.step = 3 -> PushByte(w, w.cpu.pc % 256)
      [] inst.op = "INT" /\ inst.step = 4 ->
             [w EXCEPT !.cpu.ime = "Disabled", !.cpu.pc = Vector(inst.src)]
      [] OTHER -> w

\* Instruction::exec: runs one micro-op; `more` is Some(inst) / None.
InstExec(w, inst) ==
    [ w    |-> [MicroOp(w, inst) EXCEPT !.ev.uops = @ + 1, !.ev.ran = inst],
      more |-> inst.step + 1 < InstLen(inst.op),
      inst |-> [inst EXCEPT !.step = @ + 1] ]

(***************************************************************************)
(* Cpu and State (core/src/hw/cpu/sm83/mod.rs)                             *)
(***************************************************************************)
StFetch == [k |-> "Fetch", inst |-> NoInst]

StExecute(inst) == [k |-> "Execute", inst |-> inst]

StDone == [k |-> "Done", inst |-> NoInst]

\* Cpu::default(): zeroed registers, Status::Enabled, State::Fetch,
\* Ime::Disabled, halt_bug false.
CpuDefault ==
    [ a |-> 0, f |-> 0, b |-> 0, c |-> 0, d |-> 0, e |-> 0, h |-> 0, l |-> 0,
      sp |-> 0, pc |-> 0,
      status |-> "Enabled", state |-> StFetch, ime |-> "Disabled",
      halt_bug |-> FALSE ]

\* Cpu::enabled
Enabled(c) == c.status = "Enabled"

\* Bus::reset: every mapped device is reset; a reset memory or register
\* holds zeros.
BusReset(m) ==
    [d \in Devs |-> IF d = "boot" THEN [i \in 0..(DevLen(d) - 1) |-> 0] ELSE <<>>]

\* Pic::reset: IE and IF are reset.
PicReset(p) == [enable |-> 0, flag |-> 0]

\* Variant of Registers::reset that clears the whole register file.
RegistersResetAll(c) ==
    [c EXCEPT !.a = 0, !.f = 0, !.b = 0, !.c = 0, !.d = 0, !.e = 0,
              !.h = 0, !.l = 0, !.sp = 0, !.pc = 0]

\* Registers::reset: only PC is reset.
RegistersReset(c) == [c EXCEPT !.pc = 0]

\* Cpu::reset, on the Cpu itself: the registers are reset, then status,
\* state and ime take their defaults; halt_bug is not assigned.
CpuReset(c) ==
    [RegistersReset(c) EXCEPT !.status = CpuDefault.status,
                              !.state = CpuDefault.state,
                              !.ime = CpuDefault.ime]

\* What a cycle has done so far, given the state it begins in.
EvBegin(c, p) ==
    [ began   |-> c.state.k,          \* the state the cycle began in
      status0 |-> c.status,           \* run status when it began
      ime0    |-> c.ime,              \* IME when it began
      pend0   |-> BitAnd(p.enable, p.flag) # 0,
      pc0     |-> c.pc,               \* PC when it began
      inst0   |-> c.state.inst,       \* the instruction in Execute when it began
      queried |-> FALSE,              \* pic.int() was called
      acked   |-> {},                 \* the source pic.ack() was called for
      fetched |-> FALSE,              \* an opcode was fetched
      uops    |-> 0,                  \* micro-ops executed
      operands |-> 0,                 \* operand bytes fetched by the micro-op
      ran     |-> NoInst,             \* the micro-op that ran
      hb0     |-> c.halt_bug,         \* halt_bug when it began
      pic0    |-> p,                  \* IE and IF when it began
      opcode  |-> {},                 \* the opcode byte fetched, if any
      pcF     |-> c.pc,               \* PC at the end of the Fetch block
      imeF    |-> c.ime,              \* IME at the end of the Fetch block
      hbF     |-> c.halt_bug,         \* halt_bug at the end of the Fetch block
      cpu1    |-> c,                  \* the Cpu when the cycle ended
      pic1    |-> p ]                 \* IE and IF when the cycle ended

\* Variant of the interrupt check that is not restricted to State::Done.
ExecDoneAnyState(w) ==
    LET int == IF w.cpu.ime = "Enabled" THEN PicInt(w.pic) ELSE {}
        q   == w.cpu.ime = "Enabled"
    IN  IF int # {}
        THEN LET k == CHOOSE x \in int : TRUE
             IN  [w EXCEPT !.pic = PicAck(@, k),
                           !.cpu.state = StExecute(InstInt(k)),
                           !.ev.queried = q,
                           !.ev.acked = int]
        ELSE IF w.cpu.state.k = "Done"
             THEN [w EXCEPT !.cpu.state = StFetch, !.ev.queried = q]
             ELSE [w EXCEPT !.ev.queried = q]

\* Variant of the interrupt check that clears every pending IF bit.
ExecDoneAckAll(w) ==
    IF w.cpu.state.k # "Done" THEN w
    ELSE LET int == IF w.cpu.ime = "Enabled" THEN PicInt(w.pic) ELSE {}
             q   == w.cpu.ime = "Enabled"
         IN  IF int # {}
             THEN LET k == CHOOSE x \in int : TRUE
                  IN  [w EXCEPT !.pic.flag = @ - BitAnd(w.pic.enable, @),
                                !.cpu.state = StExecute(InstInt(k)),
                                !.ev.queried = q,
                                !.ev.acked = int]
             ELSE [w EXCEPT !.cpu.state = StFetch, !.ev.queried = q]

\* Variant of the interrupt check that dispatches while IME is WillEnable.
ExecDoneWillEnable(w) ==
    IF w.cpu.state.k # "Done" THEN w
    ELSE LET q   == w.cpu.ime \in {"Enabled", "WillEnable"}
             int == IF q THEN PicInt(w.pic) ELSE {}
         IN  IF int # {}
             THEN LET k == CHOOSE x \in int : TRUE
                  IN  [w EXCEPT !.pic = PicAck(@, k),
                                !.cpu.state = StExecute(InstInt(k)),
                                !.ev.queried = q,
                                !.ev.acked = int]
             ELSE [w EXCEPT !.cpu.state = StFetch, !.ev.queried = q]

\* State::exec, the State::Done block: the interrupt check.
ExecDone(w) ==
    IF w.cpu.state.k # "Done" THEN w
    ELSE LET int == IF w.cpu.ime = "Enabled" THEN PicInt(w.pic) ELSE {}
             q   == w.cpu.ime = "Enabled"
         IN  IF int # {}
             THEN LET k == CHOOSE x \in int : TRUE
                  IN  [w EXCEPT !.pic = PicAck(@, k),
                                !.cpu.state = StExecute(InstInt(k)),
                                !.ev.queried = q,
                                !.ev.acked = int]
             ELSE [w EXCEPT !.cpu.state = StFetch, !.ev.queried = q]

\* Variant of the HALT bug check that clears halt_bug but keeps the
\* advanced PC.
HaltBugKeepPc(w) == [w EXCEPT !.cpu.halt_bug = FALSE]

\* The Fetch block, the HALT bug check: if halt_bug is set the increment of
\* PC is undone and halt_bug is cleared.
HaltBug(w) ==
    IF w.cpu.halt_bug
    THEN [w EXCEPT !.cpu.pc = WrapSub16(@, 1), !.cpu.halt_bug = FALSE]
    ELSE w

\* The Fetch block, the IME delay: WillEnable becomes Enabled.
ImeDelay(w) ==
    IF w.cpu.ime = "WillEnable" THEN [w EXCEPT !.cpu.ime = "Enabled"] ELSE w

\* The Fetch block, its end: the decoded instruction is to be executed.
FetchEnd(w, opcode) ==
    [w EXCEPT !.cpu.state = StExecute(InstNew(opcode)),
              !.ev.fetched = TRUE,
              !.ev.opcode = {opcode},
              !.ev.pcF = w.cpu.pc,
              !.ev.imeF = w.cpu.ime,
              !.ev.hbF = w.cpu.halt_bug]

\* The Fetch block after fetchbyte has returned fb.
FetchDecode(fb) == FetchEnd(ImeDelay(HaltBug(fb.w)), fb.byte)

\* Variant of the Fetch block that is entered in every state.
ExecFetchAnyState(w) == FetchDecode(FetchByte(w))

\* State::exec, the State::Fetch block: fetch, decode, HALT bug, IME delay.
ExecFetch(w) ==
    IF w.cpu.state.k # "Fetch" THEN w ELSE FetchDecode(FetchByte(w))

\* Variant of the end of the Execute block that goes to Fetch, not Done,
\* after the last micro-op.
ExecuteEndInFetch(r) ==
    [r.w EXCEPT !.cpu.state = IF r.more THEN StExecute(r.inst) ELSE StFetch]

\* The Execute block after Instruction::exec has returned r.
ExecuteEnd(r) ==
    [r.w EXCEPT !.cpu.state = IF r.more THEN StExecute(r.inst) ELSE StDone]

\* State::exec, the State::Execute block: one micro-op of the instruction.
ExecExecute(w) ==
    IF w.cpu.state.k # "Execute" THEN w
    ELSE ExecuteEnd(InstExec(w, w.cpu.state.inst))

\* State::exec
StateExec(w) == ExecExecute(ExecFetch(ExecDone(w)))

\* Cpu::cycle on the CPU c, the PIC p and the bus store m.
CycleEnd(w) == [w EXCEPT !.ev.cpu1 = w.cpu, !.ev.pic1 = w.pic]

CycleOf(c, p, m) ==
    CycleEnd(StateExec([cpu |-> c, pic |-> p, mem |-> m, ev |-> EvBegin(c, p)]))

\* The record of an opcode fetch made by a cycle that began with the Cpu c
\* and the bus store m, and did ev.
FetchRecord(c, m, ev) ==
    [ pc0    |-> c.pc,                \* PC before the fetch
      byte0  |-> BusRead(m, c.pc),    \* the byte at PC before the fetch
      hb0    |-> c.halt_bug,          \* halt_bug before the fetch
      opcode |-> ev.opcode,           \* the opcode fetchbyte returned
      pcF    |-> ev.pcF,              \* PC after the fetch
      hbF    |-> ev.hbF,              \* halt_bug after the fetch
      a0     |-> c.a ]                \* A before the instruction ran

\* The two most recent of the fetches fs followed by the fetch r.
Recent(fs, r) == IF Len(fs) < 2 THEN Append(fs, r) ELSE <<fs[2], r>>

(***************************************************************************)
(* CPU operations                                                          *)
(***************************************************************************)
\* IE values and interrupt sources explored.
Enables == { \h01, \h02, \h03 }

RequestSources == { 0, 1 }

\* The programs explored: every pair of the modelled opcodes.
Programs == Opcodes \X Opcodes

\* A machine after new(), with a program loaded into cartridge ROM, the
\* stack pointer set to 0xFFFE and IE set.
CpuInit ==
    /\ \E prog \in Programs :
           mem = [d \in Devs |->
                     IF d = "rom"
                     THEN [i \in 0..(Len(prog) - 1) |-> prog[i + 1]]
                     ELSE <<>>]
    /\ last = [op |-> "load", addr |-> 0, val |-> 0]
    /\ nops = 0
    /\ bootOff = FALSE
    /\ cpu = [CpuDefault EXCEPT !.sp = \hfffe, !.b = \h12, !.c = \h34]
    /\ \E en \in Enables : pic = [enable |-> en, flag |-> 0]
    /\ run = "idle"
    /\ cyc = EvBegin(CpuDefault, [enable |-> 0, flag |-> 0])
    /\ reqAt = StFetch
    /\ ncycles = 0
    /\ fetches = <<>>

\* The variables after a cycle that ended in w.
CycleEffect(w) ==
    /\ cpu' = w.cpu
    /\ pic' = w.pic
    /\ mem' = w.mem
    /\ cyc' = w.ev
    /\ ncycles' = ncycles + 1
    /\ fetches' = IF w.ev.fetched
                   THEN Recent(fetches, FetchRecord(cpu, mem, w.ev))
                   ELSE fetches

\* The effect of one Cpu::cycle() on the variables.
DoCycle == CycleEffect(CycleOf(cpu, pic, mem))

\* Cpu::cycle(), called by a host that drives the CPU itself.
Cycle ==
    /\ run # "running"
    /\ ncycles < MaxCycles
    /\ DoCycle
    /\ UNCHANGED <<run, reqAt, last, nops, bootOff, roVars, extVars>>

\* GameBoy::start: cpu.start(), then the loop is entered.
Start ==
    /\ run = "idle"
    /\ run' = "running"
    /\ UNCHANGED <<cpu, pic, cyc, reqAt, ncycles, fetches, busVars, roVars, extVars>>

\* GameBoy::start, one iteration: while self.cpu.enabled() { self.cpu.cycle() }
LoopCycle ==
    /\ run = "running"
    /\ Enabled(cpu)
    /\ ncycles < MaxCycles
    /\ DoCycle
    /\ UNCHANGED <<run, reqAt, last, nops, bootOff, roVars, extVars>>

\* GameBoy::start: the loop condition fails and start() returns.
LoopExit ==
    /\ run = "running"
    /\ ~Enabled(cpu)
    /\ run' = "returned"
    /\ UNCHANGED <<cpu, pic, cyc, reqAt, ncycles, fetches, busVars, roVars, extVars>>

\* A peripheral raises an interrupt request (IF bit k is set).
Request(k) ==
    /\ Bit(pic.flag, k) = 0
    /\ pic' = PicRequest(pic, k)
    /\ reqAt' = cpu.state
    /\ UNCHANGED <<cpu, run, cyc, ncycles, fetches, busVars, roVars, extVars>>

\* Cpu::wake
Wake ==
    /\ cpu.status # "Enabled"
    /\ cpu' = [cpu EXCEPT !.status = "Enabled"]
    /\ UNCHANGED <<pic, run, cyc, reqAt, ncycles, fetches, busVars, roVars, extVars>>

\* Cpu::reset, called by a host that drives the CPU itself: the bus and the
\* PIC are reset, then the Cpu.
ResetCpu ==
    /\ run # "running"
    /\ nops < MaxResets
    /\ nops' = nops + 1
    /\ mem' = BusReset(mem)
    /\ pic' = PicReset(pic)
    /\ cpu' = CpuReset(cpu)
    /\ last' = [op |-> "cpu_reset", addr |-> cpu.pc, val |-> cpu.sp]
    /\ fetches' = <<>>
    /\ UNCHANGED <<run, cyc, reqAt, ncycles, bootOff, roVars, extVars>>

CpuNext ==
    \/ ResetCpu
    \/ Cycle
    \/ Start
    \/ LoopCycle
    \/ LoopExit
    \/ \E k \in RequestSources : Request(k)
    \/ Wake

\* The CPU is not in use.
CpuIdle ==
    /\ cpu = CpuDefault
    /\ pic = [enable |-> 0, flag |-> 0]
    /\ run = "idle"
    /\ cyc = EvBegin(CpuDefault, [enable |-> 0, flag |-> 0])
    /\ reqAt = StFetch
    /\ ncycles = 0
    /\ fetches = <<>>


(***************************************************************************)
(* Properties of the CPU                                                   *)
(***************************************************************************)
\* C8: a cycle() taken while the CPU is Halted and IE & IF = 0 fetches no
\* opcode, runs no micro-op, leaves PC unchanged and ends in Done.
C8_HaltedCycleStaysDone ==
    (ncycles > 0 /\ cyc.status0 = "Halted" /\ ~cyc.pend0) =>
        /\ ~cyc.fetched
        /\ cyc.uops = 0
        /\ cpu.pc = cyc.pc0
        /\ cpu.state.k = "Done"

\* C9: GameBoy::start has not returned, leaving the CPU halted for good,
\* when HALT ran with IME enabled and IE = 0x01 and IF bit 0 was then raised.
C9_HaltedCpuWakesOnInterrupt ==
    ~( /\ run = "returned"
       /\ cpu.status = "Halted"
       /\ cpu.ime = "Enabled"
       /\ pic.enable = \h01
       /\ pic.flag = \h01 )

\* The PIC is queried, and an interrupt acknowledged or dispatched, only in
\* a cycle that begins in Done; a cycle that begins in Execute(inst) runs the
\* micro-op of inst, and Done is entered only after an instruction's last
\* micro-op.
SampledOnlyAtDone ==
    /\ (cyc.queried \/ cyc.acked # {}) => cyc.began = "Done"
    /\ (cyc.ran.op = "INT" /\ cyc.ran.step = 0) => cyc.began = "Done"
    /\ cyc.began = "Execute" => cyc.ran = cyc.inst0
    /\ (ncycles > 0 /\ cpu.state.k = "Done") =>
           cyc.ran.step + 1 = InstLen(cyc.ran.op)

\* C10 as stated: interrupts are sampled only in a cycle that begins in
\* Done, and a request raised during Execute(inst) is sampled by the cycles
\* that begin in Done while it is pending.
C10_SampledAtEveryDone ==
    /\ SampledOnlyAtDone
    /\ (cyc.began = "Done" /\ cyc.pend0 /\ reqAt.k = "Execute") => cyc.queried

\* C10 amended: interrupts are sampled only in a cycle that begins in Done,
\* and a cycle that begins in Done with IME enabled queries the PIC and, with
\* a request pending, acknowledges and dispatches it.
C10_SampledAtDoneWhenImeEnabled ==
    /\ SampledOnlyAtDone
    /\ (cyc.began = "Done" /\ cyc.ime0 = "Enabled") =>
           /\ cyc.queried
           /\ cyc.pend0 => (cyc.acked # {} /\ cyc.ran.op = "INT")
    /\ (cyc.began = "Done" /\ cyc.ime0 # "Enabled") => ~cyc.queried

\* A request raised during PUSH BC was acknowledged and dispatched by the
\* first cycle that began in Done after the push had written both bytes.
C10_Witness ==
    /\ reqAt.k = "Execute" /\ reqAt.inst.op = "PUSH_BC"
    /\ cyc.began = "Done" /\ cyc.acked = {0}
    /\ cyc.ran = InstInt(0)
    /\ cpu.sp = \hfffc
    /\ BusRead(mem, \hfffd) = \h12 /\ BusRead(mem, \hfffc) = \h34

(***************************************************************************)
(* The stack and the paired registers (core/src/hw/cpu/sm83/mod.rs)        *)
(***************************************************************************)
\* Variant of Cpu::pushword that writes the low byte first.
PushWordLowFirst(w, word) == PushByte(PushByte(w, word % 256), word \div 256)

\* Cpu::pushword: SP - 1 takes the high byte, then SP - 2 the low byte.
PushWord(w, word) == PushByte(PushByte(w, word \div 256), word % 256)

\* Cpu::popword: the low byte is read at SP, the high byte at SP + 1.
PopWord(w) ==
    LET lo  == BusRead(w.mem, w.cpu.sp)
        sp1 == WrapAdd16(w.cpu.sp, 1)
        hi  == BusRead(w.mem, sp1)
    IN  [ w    |-> [w EXCEPT !.cpu.sp = WrapAdd16(sp1, 1)],
          word |-> hi * 256 + lo ]

\* The AF view, get: (a << 8) | f.
AfGet(c) == c.a * 256 + c.f

\* The AF view, set: a = (af & 0xff00) >> 8, f = af & 0x00ff.
AfSet(c, af) == [c EXCEPT !.a = af \div 256, !.f = af % 256]

\* Stack pointers and words explored: both ends of the address space, the
\* borders of the mapped regions, and words with distinct and equal bytes.
StackPointers ==
    { \h0000, \h0001, \h0002, \h0100, \h0101, \h8000, \h8001, \ha001,
      \hc001, \he000, \he001, \hfe01, \hfea1, \hff01, \hff10, \hff51,
      \hff81, \hfffe, \hffff }

Words == { \h0000, \h00ff, \h1234, \hab0f, \hfff0, \hffff }

\* A stack or register operation op with the word it moved, SP before it,
\* and the push it follows, if it follows one.
StackOp(op, word, sp0, prev) ==
    [ op |-> op, word |-> word, sp0 |-> sp0,
      after |-> prev.op, pword |-> prev.word, psp0 |-> prev.sp0 ]

NoStackOp == [op |-> "new", word |-> 0, sp0 |-> 0]

\* A machine after new() whose CPU holds some stack pointer.
RegInit ==
    /\ BusInit
    /\ \E sp \in StackPointers : cpu = [CpuDefault EXCEPT !.sp = sp]
    /\ pic = [enable |-> 0, flag |-> 0]
    /\ run = "idle"
    /\ cyc = EvBegin(CpuDefault, [enable |-> 0, flag |-> 0])
    /\ reqAt = StFetch
    /\ ncycles = 0
    /\ fetches = <<>>
    /\ stk = StackOp("new", 0, 0, NoStackOp)

\* pushword(word)
Push(word) ==
    /\ nops < MaxStackOps
    /\ LET w == PushWord([cpu |-> cpu, mem |-> mem], word)
       IN  cpu' = w.cpu /\ mem' = w.mem
    /\ stk' = StackOp("push", word, cpu.sp, NoStackOp)
    /\ nops' = nops + 1
    /\ UNCHANGED <<last, bootOff, pic, run, cyc, reqAt, ncycles, fetches,
                   roVars, loadVars, ppuVars>>

\* popword()
Pop ==
    /\ nops < MaxStackOps
    /\ LET r == PopWord([cpu |-> cpu, mem |-> mem])
       IN  /\ cpu' = r.w.cpu
           /\ stk' = StackOp("pop", r.word, cpu.sp, stk)
    /\ nops' = nops + 1
    /\ UNCHANGED <<mem, last, bootOff, pic, run, cyc, reqAt, ncycles, fetches,
                   roVars, loadVars, ppuVars>>

\* regs.af.set(word)
SetAf(word) ==
    /\ nops < MaxStackOps
    /\ cpu' = AfSet(cpu, word)
    /\ stk' = StackOp("set_af", word, cpu.sp, stk)
    /\ nops' = nops + 1
    /\ UNCHANGED <<mem, last, bootOff, pic, run, cyc, reqAt, ncycles, fetches,
                   roVars, loadVars, ppuVars>>

\* POP AF: the word popped is written through the AF view.
PopAf ==
    /\ nops < MaxStackOps
    /\ LET r == PopWord([cpu |-> cpu, mem |-> mem])
       IN  /\ cpu' = AfSet(r.w.cpu, r.word)
           /\ stk' = StackOp("pop_af", r.word, cpu.sp, stk)
    /\ nops' = nops + 1
    /\ UNCHANGED <<mem, last, bootOff, pic, run, cyc, reqAt, ncycles, fetches,
                   roVars, loadVars, ppuVars>>

RegNext ==
    \/ \E word \in Words : Push(word)
    \/ Pop
    \/ \E word \in Words : SetAf(word)
    \/ PopAf

\* The stack and the paired registers are not in use.
RegIdle == stk = [op |-> "none"]

\* C13: a popword() that immediately follows pushword(w) returns w and
\* leaves SP where it was before the push; the bus then reads the high byte
\* of w at that SP - 1 and the low byte at that SP - 2 (modulo 2^16).
C13_PushThenPopRoundTrip ==
    (stk.op = "pop" /\ stk.after = "push") =>
        /\ stk.word = stk.pword
        /\ cpu.sp = stk.psp0
        /\ stk.sp0 = WrapSub16(stk.psp0, 2)
        /\ BusRead(mem, WrapSub16(stk.psp0, 1)) = stk.pword \div 256
        /\ BusRead(mem, WrapSub16(stk.psp0, 2)) = stk.pword % 256

\* 0x1234 was pushed with SP = 0x0001 and popped again: the bytes went to
\* 0x0000 and 0xFFFF, and SP is 0x0001 again.
C13_Witness ==
    /\ stk.op = "pop" /\ stk.after = "push"
    /\ stk.pword = \h1234 /\ stk.word = \h1234
    /\ stk.psp0 = \h0001 /\ stk.sp0 = \hffff /\ cpu.sp = \h0001
    /\ BusRead(mem, \h0000) = \h12 /\ BusRead(mem, \hffff) = \h34

\* C14: in every register state, after writes of any word through the AF
\* view included, the low nibble of F is zero.
C14_FlagLowNibbleZero == cpu.f % 16 = 0

(***************************************************************************)
(* GameBoy::load (src/model/dmg/mod.rs)                                    *)
(***************************************************************************)
\* The images explored: every image of at most MaxImage bytes, and one that
\* is a byte longer than the cartridge ROM.
ImageBytes == { \h3c, \haa }

LongImage == [i \in 1..(DevLen("rom") + 1) |-> IF i % 2 = 0 THEN \h3c ELSE \haa]

Images == UNION { [1..n -> ImageBytes] : n \in 0..MaxImage } \cup { LongImage }

\* file.read(buf): the number of bytes read into a buffer of len bytes.
FileRead(img, len) == IF Len(img) < len THEN Len(img) ELSE len

\* What load logs: a warning when the buffer was not filled, an error when
\* the file is longer than the buffer.
LoadLog(img, read, len) ==
    IF read < len THEN "warn"
    ELSE IF len < Len(img) THEN "error" ELSE "info"

\* The cartridge ROM rom after file.read has copied the first read bytes of
\* img over it; the bytes past them are not written.
RomAfterLoad(rom, img, read) == [i \in 0..(read - 1) |-> img[i + 1]] @@ rom

\* A machine after new().
LoadInit ==
    /\ BusInit
    /\ ld = [op |-> "new", img |-> <<>>, read |-> 0, ok |-> TRUE, log |-> "-"]

\* GameBoy::load(path), the file at path holding img.
Load(img) ==
    /\ nops < MaxLoads
    /\ LET read == FileRead(img, DevLen("rom"))
       IN  /\ mem' = [mem EXCEPT !["rom"] = RomAfterLoad(@, img, read)]
           /\ ld' = [op |-> "load", img |-> img, read |-> read, ok |-> TRUE,
                     log |-> LoadLog(img, read, DevLen("rom"))]
    /\ last' = [op |-> "load", addr |-> 0, val |-> 0]
    /\ nops' = nops + 1
    /\ UNCHANGED <<bootOff, roVars, cpuVars, regVars, ppuVars>>

\* GameBoy::reset() between loads; Cartridge::reset returns the cartridge
\* as it is.
LoadReset ==
    /\ last.op # "reset"
    /\ mem' = [mem EXCEPT !["boot"] = <<>>]
    /\ last' = [op |-> "reset", addr |-> 0, val |-> 0]
    /\ bootOff' = FALSE
    /\ UNCHANGED <<nops, roVars, cpuVars, regVars, loadVars, ppuVars>>

LoadNext ==
    \/ \E img \in Images : Load(img)
    \/ LoadReset

\* load is not in use.
LoadIdle == ld = [op |-> "none"]

\* C19: after the most recent load, if it read n < 32768 bytes the ROM
\* bytes [0, n) are the image's and every ROM byte in [n, 32768) is zero;
\* if the image is longer than 32768 bytes the ROM holds its first 32768
\* bytes and load returned Ok.
C19_LoadLeavesRemainderZero ==
    ld.op = "load" =>
        /\ ld.ok
        /\ \A i \in 0..(ld.read - 1) : DevRead(mem, "rom", i) = ld.img[i + 1]
        /\ \A i \in ld.read..(DevLen("rom") - 1) : DevRead(mem, "rom", i) = 0
        /\ Len(ld.img) > DevLen("rom") => ld.read = DevLen("rom")

\* C11: a cycle that begins in Done with IME = WillEnable and an interrupt
\* pending acknowledges and dispatches nothing; it fetches the next opcode
\* and IME is Enabled once that fetch is made.  An interrupt is dispatched
\* only by a cycle that begins in Done with IME already Enabled, and Done is
\* reached only after the last micro-op of the instruction fetched.
C11_EiDelaysDispatch ==
    /\ (cyc.began = "Done" /\ cyc.ime0 = "WillEnable" /\ cyc.pend0) =>
           /\ cyc.acked = {}
           /\ cyc.pic1 = cyc.pic0
           /\ cyc.fetched
           /\ cyc.imeF = "Enabled"
           /\ cyc.ran.op # "INT"
    /\ (cyc.acked # {} \/ cyc.ran.op = "INT") =>
           (cyc.ime0 = "Enabled" \/ cyc.began = "Execute")
    /\ SampledOnlyAtDone

\* EI ran with a request pending; the next cycle, begun in Done with IME =
\* WillEnable, fetched PUSH BC instead of dispatching, and IME is Enabled.
C11_Witness ==
    /\ cyc.began = "Done" /\ cyc.ime0 = "WillEnable" /\ cyc.pend0
    /\ cyc.opcode = {OpPushBc}
    /\ cyc.acked = {}
    /\ cpu.ime = "Enabled"
    /\ cpu.state = StExecute(Inst("PUSH_BC", 1, 0))

\* The fetch f was made with halt_bug set: the opcode is the byte at PC, PC
\* is the same after the fetch as before it, and halt_bug is cleared.
HaltBugFetch(f) ==
    f.hb0 => (f.opcode = {f.byte0} /\ f.pcF = f.pc0 /\ ~f.hbF)

\* The fetch g, made after the fetch f, reads the opcode f read, from the
\* same address, and advances PC.
Refetch(f, g) ==
    /\ g.pc0 = f.pc0
    /\ g.opcode = f.opcode
    /\ g.pcF = WrapAdd16(g.pc0, 1)
    /\ f.opcode = {OpIncA} => g.a0 = (f.a0 + 1) % 256

NotRefetched == { OpHalt, OpLdBc }

KeptRegisters == {"a", "f", "b", "c", "d", "e", "h", "l", "sp"}

\* C18: every Cpu::reset step ends with PC = 0, status Enabled, the FSM in
\* Fetch and IME Disabled, and with A, F, B, C, D, E, H, L and SP as they
\* were before the reset.
C18_ResetRestoresControlState ==
    [][ (nops' # nops) =>
            /\ cpu'.pc = 0
            /\ cpu'.status = "Enabled"
            /\ cpu'.state = StFetch
            /\ cpu'.ime = "Disabled"
            /\ \A r \in KeptRegisters : cpu'[r] = cpu[r] ]_vars

\* The CPU was reset after EI, HALT had left it halted in Done with IME
\* enabled and PC = 2; B, C and SP still hold what they held.
C18_Witness ==
    /\ last = [op |-> "cpu_reset", addr |-> 2, val |-> \hfffe]
    /\ cyc.cpu1.status = "Halted" /\ cyc.cpu1.ime = "Enabled"
    /\ cyc.cpu1.state.k = "Done" /\ cyc.cpu1.pc = 2
    /\ cpu = [cyc.cpu1 EXCEPT !.pc = 0, !.status = "Enabled",
                              !.state = StFetch, !.ime = "Disabled"]
    /\ cpu.b = \h12 /\ cpu.c = \h34 /\ cpu.sp = \hfffe

\* The lowest set bit of the byte x is bit k.
LowestSetBit(x, k) == Bit(x, k) = 1 /\ \A j \in 0..(k - 1) : Bit(x, j) = 0

\* C20: a cycle that begins in Done with IME Enabled and IE & IF # 0
\* acknowledges the source of the lowest set bit of IE & IF and no other
\* (that IF bit is cleared, the other IF bits and IE are as before), fetches
\* no opcode (PC, halt_bug and IME are as before) and is then executing the
\* interrupt-service instruction of that source; any other cycle that
\* begins in Done clears no IF bit and fetches an opcode.
C20_DispatchAcknowledgesOneSource ==
    /\ (cyc.began = "Done" /\ cyc.ime0 = "Enabled" /\ cyc.pend0) =>
           \E k \in Sources :
               /\ LowestSetBit(BitAnd(cyc.pic0.enable, cyc.pic0.flag), k)
               /\ cyc.acked = {k}
               /\ cyc.pic1.flag = cyc.pic0.flag - 2^k
               /\ cyc.pic1.enable = cyc.pic0.enable
               /\ ~cyc.fetched /\ cyc.opcode = {}
               /\ cyc.cpu1.pc = cyc.pc0
               /\ cyc.cpu1.halt_bug = cyc.hb0
               /\ cyc.cpu1.ime = cyc.ime0
               /\ cyc.ran = InstInt(k)
               /\ cyc.cpu1.state = StExecute(Inst("INT", 1, k))
    /\ (cyc.began = "Done" /\ ~(cyc.ime0 = "Enabled" /\ cyc.pend0)) =>
           /\ cyc.acked = {}
           /\ cyc.pic1 = cyc.pic0
           /\ cyc.fetched

\* With IE = 0x02 and both IF bits 0 and 1 raised, the cycle dispatched
\* source 1: IF is 0x01 and the CPU is executing its service instruction.
C20_Witness ==
    /\ cyc.began = "Done" /\ cyc.ime0 = "Enabled"
    /\ cyc.pic0 = [enable |-> \h02, flag |-> \h03]
    /\ cyc.acked = {1}
    /\ pic = [enable |-> \h02, flag |-> \h01]
    /\ cpu.state = StExecute(Inst("INT", 1, 1))
    /\ cpu.pc = 2

\* The micro-op of inst at its step is a control transfer: the jump to the
\* interrupt vector.
ControlTransfer(inst) == inst.op = "INT" /\ inst.step = 4

C25_OneMicroOpPerCycle ==
    ncycles > 0 =>
        /\ cyc.cpu1.state.k \in {"Execute", "Done"}
        /\ cyc.uops = 1
        /\ cyc.began = "Done" =>
               /\ cyc.queried <=> (cyc.ime0 = "Enabled")
               /\ cyc.fetched <=> (cyc.acked = {})
               /\ cyc.ran.step = 0
               /\ (cyc.ran.op = "INT") <=> (cyc.acked # {})
        /\ cyc.began = "Fetch" => (cyc.fetched /\ cyc.ran.step = 0)
        /\ cyc.began = "Execute" => (~cyc.fetched /\ cyc.ran = cyc.inst0)
        /\ cyc.fetched => cyc.ran = InstNew(CHOOSE o \in cyc.opcode : TRUE)
        /\ cyc.ran.step < InstLen(cyc.ran.op)
        /\ cyc.cpu1.state =
               IF cyc.ran.step + 1 < InstLen(cyc.ran.op)
               THEN StExecute([cyc.ran EXCEPT !.step = @ + 1])
               ELSE StDone

\* NOP took one cycle and PUSH BC, fetched by the cycle that began in Done
\* after it, the next four: after five cycles the CPU is in Done with both
\* bytes pushed.
C25_Witness ==
    /\ ncycles = 5
    /\ cyc.began = "Execute" /\ cyc.ran = Inst("PUSH_BC", 3, 0)
    /\ cyc.uops = 1
    /\ cpu.state = StDone
    /\ cpu.pc = 2 /\ cpu.sp = \hfffc

\* C26: after Cpu::reset halt_bug is false, and the first fetch after the
\* reset reads the opcode at address 0x0000 and leaves PC = 0x0001.
C26_ResetClearsHaltBug ==
    last.op = "cpu_reset" =>
        /\ fetches = <<>> => ~cpu.halt_bug
        /\ Len(fetches) = 1 =>
               /\ fetches[1].pc0 = 0
               /\ ~fetches[1].hb0
               /\ fetches[1].opcode = {fetches[1].byte0}
               /\ fetches[1].pcF = 1

(***************************************************************************)
(* The pixel fetcher (src/model/dmg/ppu/pixel.rs)                          *)
(***************************************************************************)
\* enum Colour, by discriminant.
Colour(n) == <<"C0", "C1", "C2", "C3">>[n + 1]

Pixel(c) == [colour |-> c, palette |-> "BgWin"]

\* The colour number TileRow::from computes for one bit of the two bytes:
\* the bit of bytes[0] shifted left by one, or'ed with the bit of bytes[1].
BitColour(bytes, bit) == 2 * Bit(bytes[1], bit) + Bit(bytes[2], bit)

\* Variant of TileRow::from that maps the bits from 7 down to 0.
TileRowDescending(bytes) ==
    [k \in 1..8 |-> Pixel(Colour(BitColour(bytes, 8 - k)))]

\* TileRow::from([u8; 2]): (0..u8::BITS).map(|bit| ...), so element k of
\* the row (1-based here) comes from bit k - 1.  bytes is 1-based too.
TileRowFrom(bytes) ==
    [k \in 1..8 |-> Pixel(Colour(BitColour(bytes, k - 1)))]

\* Stage::ReadTile, ReadData0 { tile }, ReadData1 { tile, data0 }, Push(row)
Stage(k, tile, data0, row) == [k |-> k, tile |-> tile, data0 |-> data0, row |-> row]

StageReadTile == Stage("ReadTile", 0, 0, <<>>)

\* The stage of a fetcher whose step panicked on an arithmetic overflow.
StagePanic == Stage("Panic", 0, 0, <<>>)

\* Lcdc::BgMap and Lcdc::BgWinData are bits 3 and 4 of LCDC.
LcdcBgMap(lcdc) == Bit(lcdc, 3) = 1

LcdcBgWinData(lcdc) == Bit(lcdc, 4) = 1

\* ppu.vram.read(i)
VramRead(m, i) == IF DevContains("vram", i) THEN DevRead(m, "vram", i) ELSE \hff

\* Stage::ReadTile, the index of the tile in the background map.
TileIndex(p) ==
    LET base == IF LcdcBgMap(p.lcdc) THEN \h1c00 ELSE \h1800
        ypos == ((p.scy + p.ly) % 256) \div 8
        xpos == (((p.scx \div 8) + p.xpos) % 256) % 32
    IN  base + (32 * ypos) + xpos

\* scy.wrapping_add(ly) % 8
TileYoff(p) == ((p.scy + p.ly) % 256) % 8

\* Stage::ReadTile, the address of the row of tile data: unsigned tile ids
\* from 0x0000, or signed ones around 0x0800 in u16 arithmetic, where the
\* final addition overflows for a negative id.
TileDataAddr(lcdc, tile, yoff) ==
    IF LcdcBgWinData(lcdc)
    THEN [addr |-> (16 * tile) + (2 * yoff), overflow |-> FALSE]
    ELSE LET t      == IF tile >= 128 THEN tile - 256 ELSE tile
             offset == ((16 * t) % 65536) + (2 * yoff)
             sum    == \h0800 + offset
         IN  [addr |-> sum % 65536, overflow |-> sum >= 65536]

\* Stage::exec, Stage::ReadTile
ExecReadTile(p, m) ==
    LET tile == VramRead(m, TileIndex(p))
        r    == TileDataAddr(p.lcdc, tile, TileYoff(p))
        q    == [p EXCEPT !.xpos = @ + 1]
    IN  { [q EXCEPT !.stage = Stage("ReadData0", r.addr, 0, <<>>)] }
        \cup (IF r.overflow THEN { [q EXCEPT !.stage = StagePanic] } ELSE {})

\* Variant of Stage::ReadData0 that reads both bytes and skips ReadData1.
ExecReadData0Both(p, m) ==
    [p EXCEPT !.stage = Stage("Push", 0, 0,
                              TileRowFrom(<<VramRead(m, @.tile),
                                            VramRead(m, @.tile + 1)>>))]

\* Stage::exec, Stage::ReadData0
ExecReadData0(p, m) ==
    [p EXCEPT !.stage = Stage("ReadData1", @.tile, VramRead(m, @.tile), <<>>)]

\* Stage::exec, Stage::ReadData1
ExecReadData1(p, m) ==
    LET data1 == VramRead(m, p.stage.tile + 1)
    IN  [p EXCEPT !.stage = Stage("Push", 0, 0, TileRowFrom(<<@.data0, data1>>))]

\* Variant of Stage::Push that pushes whatever the length of the FIFO.
ExecPushAlways(p) ==
    [p EXCEPT !.fifo = @ \o p.stage.row, !.stage = StageReadTile]

\* Variant of Stage::Push that pushes only while the FIFO is shorter than 8.
ExecPushBelow8(p) ==
    IF Len(p.fifo) < 8
    THEN [p EXCEPT !.fifo = @ \o p.stage.row, !.stage = StageReadTile]
    ELSE p

\* Stage::exec, Stage::Push
ExecPush(p) ==
    IF Len(p.fifo) <= 8
    THEN [p EXCEPT !.fifo = @ \o p.stage.row, !.stage = StageReadTile]
    ELSE p

\* Stage::exec: the fetchers a step can leave.
StageExec(p, m) ==
    CASE p.stage.k = "ReadTile"  -> ExecReadTile(p, m)
      [] p.stage.k = "ReadData0" -> { ExecReadData0(p, m) }
      [] p.stage.k = "ReadData1" -> { ExecReadData1(p, m) }
      [] p.stage.k = "Push"      -> { ExecPush(p) }
      [] OTHER                   -> {}

\* Tile ids, tile data and scanline registers explored.
TileIds == { \h00, \h01, \h7f, \h80, \hff }

TileData ==
    { <<\hff, \h00>>, <<\h00, \hff>>, <<\hf0, \h0f>>, <<\h01, \h00>>,
      <<\h00, \h80>>, <<\ha5, \h3c>> }

Lcdcs == { \h00, \h08, \h10, \h18 }

Scrolls == { \h00, \hff }

Lines == { \h00, \h8f }

\* What a fetcher step did: the fetcher before and after it, the two
\* bytes VRAM holds at the tile-data address of the row being fetched (those
\* of the step prev when this step holds no address), and the tile-data
\* address the latest ReadTile step left; pops tells whether the pixel
\* shifter has run so far.
FetchStep(p, q, m, prev) ==
    LET addressed == p.stage.k \in {"ReadData0", "ReadData1"}
    IN  [ stage |-> p.stage.k, p0 |-> p, p1 |-> q,
          low   |-> IF addressed THEN VramRead(m, p.stage.tile) ELSE prev.low,
          high  |-> IF addressed THEN VramRead(m, p.stage.tile + 1) ELSE prev.high,
          tile0 |-> IF p.stage.k = "ReadTile" THEN q.stage.tile ELSE prev.tile0,
          pops  |-> prev.pops ]

\* A machine after new() whose VRAM holds one tile id in the background map
\* and one row of tile data, with the scanline registers set.
PpuInit ==
    /\ \E tile \in TileIds, data \in TileData, lcdc \in Lcdcs,
          scy \in Scrolls, scx \in Scrolls, ly \in Lines :
          LET p == [ stage |-> StageReadTile, xpos |-> 0, fifo |-> <<>>,
                     lcdc |-> lcdc, scy |-> scy, scx |-> scx, ly |-> ly ]
              a == TileDataAddr(lcdc, tile, TileYoff(p)).addr
          IN  /\ ppu = p
              /\ mem = [d \in Devs |->
                           IF d = "vram"
                           THEN (TileIndex(p) :> tile) @@ (a :> data[1])
                                    @@ ((a + 1) :> data[2])
                           ELSE <<>>]
              /\ fstep = FetchStep(p, p, mem,
                                   [low |-> 0, high |-> 0, tile0 |-> 0,
                                    pops |-> FALSE])
    /\ last = [op |-> "new", addr |-> 0, val |-> 0]
    /\ nops = 0
    /\ bootOff = FALSE

\* Fetch::exec: one step of the fetcher.
FetchExec ==
    /\ nops < MaxFetch
    /\ ppu.xpos < \hff
    /\ \E q \in StageExec(ppu, mem) :
           /\ ppu' = q
           /\ fstep' = FetchStep(ppu, q, mem, fstep)
    /\ nops' = nops + 1
    /\ UNCHANGED <<mem, last, bootOff, roVars, cpuVars, regVars, loadVars>>

\* The pixel shifter drains the first pixel of the FIFO.
Shift ==
    /\ ppu.stage.k # "Panic"
    /\ Len(ppu.fifo) > 0
    /\ ppu' = [ppu EXCEPT !.fifo = Tail(@)]
    /\ fstep' = [fstep EXCEPT !.pops = TRUE]
    /\ UNCHANGED <<busVars, roVars, cpuVars, regVars, loadVars>>

PpuNext ==
    \/ FetchExec
    \/ Shift

\* The pixel fetcher is not in use.
PpuIdle == ppu = [stage |-> "none"] /\ fstep = [stage |-> "none"]

\* C15: when ReadData1 has decoded a row from the low byte (at the tile-data
\* address) and the high byte (at the address + 1), the pixel taken from
\* bit i has colour ((high >> i) & 1) << 1 | ((low >> i) & 1), for each i in
\* 0..7; low = 0xFF and high = 0x00 give eight pixels of colour C1.
C15_PixelDecode ==
    fstep.stage = "ReadData1" =>
        \A i \in 0..7 :
            fstep.p1.stage.row[i + 1].colour =
                Colour(2 * Bit(fstep.high, i) + Bit(fstep.low, i))

\* C16: when Push has appended a row, the pixel at position k of the
\* appended part (k = 0 first) is the one decoded from bit 7 - k of the two
\* data bytes.
C16_HighestBitFirst ==
    (fstep.stage = "Push" /\ fstep.p1.stage.k = "ReadTile") =>
        \A k \in 0..7 :
            fstep.p1.fifo[Len(fstep.p0.fifo) + k + 1].colour =
                Colour(BitColour(<<fstep.low, fstep.high>>, 7 - k))

\* C17: a step taken in Push(row) with at most 8 pixels in the FIFO appends
\* the 8 pixels of row in row order and leaves the fetcher in ReadTile; with
\* more than 8 pixels it changes nothing: FIFO, row, stage and xpos stay.
C17_PushBackpressure ==
    fstep.stage = "Push" =>
        IF Len(fstep.p0.fifo) <= 8
        THEN /\ fstep.p1.fifo = fstep.p0.fifo \o fstep.p0.stage.row
             /\ Len(fstep.p1.fifo) = Len(fstep.p0.fifo) + 8
             /\ fstep.p1.stage = StageReadTile
             /\ fstep.p1.xpos = fstep.p0.xpos
        ELSE fstep.p1 = fstep.p0

\* Two rows were pushed, the second onto a FIFO of exactly 8 pixels; seven
\* pixels were drained, and the push of the third row, onto 9 pixels, was
\* refused.
C17_Witness ==
    /\ fstep.stage = "Push"
    /\ Len(fstep.p0.fifo) = 9
    /\ fstep.p1 = fstep.p0
    /\ ppu.stage.k = "Push" /\ Len(ppu.stage.row) = 8
    /\ ppu.xpos = 3

\* The stage that follows stage k in the fetch cycle.
NextStage(k) ==
    CASE k = "ReadTile"  -> "ReadData0"
      [] k = "ReadData0" -> "ReadData1"
      [] k = "ReadData1" -> "Push"
      [] k = "Push"      -> "ReadTile"

C23_TileDataAddressInRange ==
    fstep.stage = "ReadTile" /\ nops > 0 =>
        LET id       == VramRead(mem, TileIndex(fstep.p0))
            signed   == IF id >= 128 THEN id - 256 ELSE id
            yoff     == TileYoff(fstep.p0)
            expected == IF LcdcBgWinData(fstep.p0.lcdc)
                        THEN 16 * id + 2 * yoff
                        ELSE \h0800 + 16 * signed + 2 * yoff
        IN  /\ fstep.p1.stage.k = "ReadData0"
            /\ fstep.p1.stage.tile = expected
            /\ ~TileDataAddr(fstep.p0.lcdc, id, yoff).overflow
            /\ expected >= 0 /\ expected + 1 < \h2000

\* C27: the FIFO never holds more than 16 pixels, whatever the interleaving
\* of fetcher steps and pixel-shifter pops; while the shifter has not run,
\* its length is 0, 8 or 16, and a step taken in Push with 16 pixels in the
\* FIFO leaves the fetcher, in Push with the same row, and the FIFO as they
\* were.
C27_FifoBounded ==
    /\ Len(ppu.fifo) <= 16
    /\ ~fstep.pops =>
           /\ Len(ppu.fifo) \in {0, 8, 16}
           /\ (fstep.stage = "Push" /\ Len(fstep.p0.fifo) = 16) =>
                  /\ fstep.p1 = fstep.p0
                  /\ ppu = fstep.p0
                  /\ ppu.stage.k = "Push"

\* With no pop, two rows were pushed and the push of the third was refused:
\* the FIFO holds 16 pixels and the fetcher is in Push with xpos = 3.
C27_Witness ==
    /\ ~fstep.pops
    /\ fstep.stage = "Push" /\ Len(fstep.p0.fifo) = 16
    /\ Len(ppu.fifo) = 16
    /\ ppu.stage.k = "Push" /\ Len(ppu.stage.row) = 8
    /\ ppu.xpos = 3

(***************************************************************************)
(* Specifications                                                          *)
(***************************************************************************)
\* The parts a specification does not use.
ExtIdle ==
    /\ RegIdle
    /\ LoadIdle
    /\ PpuIdle

\* The machine bus.
Init == BusInit /\ RoIdle /\ CpuIdle /\ ExtIdle

Next == BusNext

Spec == Init /\ [][Next]_vars

\* The ReadOnly wrapper.
InitReadOnly == RoInit /\ BusInit /\ CpuIdle /\ ExtIdle

NextReadOnly == RoNext

SpecReadOnly == InitReadOnly /\ [][NextReadOnly]_vars

\* The CPU on the machine bus.
InitCpu == CpuInit /\ RoIdle /\ ExtIdle

NextCpu == CpuNext

SpecCpu == InitCpu /\ [][NextCpu]_vars

\* The stack and the paired registers on the machine bus.
InitReg == RegInit /\ RoIdle /\ LoadIdle /\ PpuIdle

NextReg == RegNext

SpecReg == InitReg /\ [][NextReg]_vars

\* Loading cartridge images.
InitLoad == LoadInit /\ RoIdle /\ CpuIdle /\ RegIdle /\ PpuIdle

NextLoad == LoadNext

SpecLoad == InitLoad /\ [][NextLoad]_vars

\* The pixel fetcher.
InitPpu == PpuInit /\ RoIdle /\ CpuIdle /\ RegIdle /\ LoadIdle

NextPpu == PpuNext

SpecPpu == InitPpu /\ [][NextPpu]_vars

====
